---- MODULE Spec2Model ----
(***************************************************************************)
(* Model of the OmegaDLG fetch-and-assemble pipeline (src/main.py).        *)
(*                                                                         *)
(* Text (addresses, file names, labels) is a sequence of one-character     *)
(* strings, so that str(), rstrip(), lower(), endswith(), splitext(), the  *)
(* "{idx:03d}" format and Python's string ordering are computed, not       *)
(* assumed.  Python's None is the value None; an exception is modelled by  *)
(* its message.                                                            *)
(***************************************************************************)
EXTENDS Integers, Sequences, FiniteSets, TLC

\* ------------------------------------------------------------------ bounds
MaxTotal == 12      \* largest total_chapters given to generate_chapter_urls
MaxR == 3           \* largest retries given to get_with_retries
MaxLong == 1001     \* longest image list given to the job builder
MaxShort == 2       \* longest arbitrary image list given to the job builder
MaxChapters == 2    \* largest chapter count a series page declares
MaxImages == 2      \* most image addresses handed to one download pass
MaxPageImages == 1  \* most image elements on a chapter page of a whole run
MaxRetries == 2     \* largest --max-retries
MaxPx == 4          \* largest pixel width and height given to the layout rule
MaxWrites == 2      \* most writes a task's run makes to its redirected stdout
MaxWorkers == 2     \* largest --workers
MaxPoolJobs == 2    \* most jobs handed to one thread pool
MaxChunks == 1      \* most body chunks one pooled download job writes
MaxReqs == 2        \* most start requests the server handles at a time
MaxPrints == 1      \* most lines one concurrent task's run prints

\* ------------------------------------------------------- program constants
PadWidth == 3       \* "{idx:03d}"
DefaultRetries == 3 \* get_with_retries(..., retries=3)
BackoffTenths == 6  \* sleep(0.6 * attempt), in tenths of a second
PageWidthPt == 720  \* page_width_pt = 720
DefaultDpi == 96    \* ... else 96
PtPerInch == 72     \* img_w_in * 72

None == <<"<", "N", "o", "n", "e", ">">>

\* ------------------------------------------------------------------- text
\* Characters in code point order; Ord is order-isomorphic to ord().
Alphabet ==
  <<"-", ".", "/", "0", "1", "2", "3", "4", "5", "6", "7", "8", "9", ":",
    "C", "G", "I", "J", "N", "O", "P", "S", "V",
    "_", "a", "b", "c", "e", "f", "g", "h", "i", "j", "m", "n", "o", "p",
    "r", "s", "t", "u", "v", "w", "x">>

Ord == [c \in {Alphabet[i] : i \in 1..Len(Alphabet)} |->
          CHOOSE i \in 1..Len(Alphabet) : Alphabet[i] = c]

LowerChar(c) ==
  CASE c = "C" -> "c" [] c = "G" -> "g" [] c = "I" -> "i" [] c = "J" -> "j"
    [] c = "N" -> "n" [] c = "O" -> "o" [] c = "P" -> "p" [] c = "S" -> "s"
    [] c = "V" -> "v" [] OTHER -> c

Lower(s) == [i \in 1..Len(s) |-> LowerChar(s[i])]

EndsWith(s, suf) ==
  /\ Len(suf) <= Len(s)
  /\ SubSeq(s, Len(s) - Len(suf) + 1, Len(s)) = suf

EndsWithAny(s, sufs) == \E suf \in sufs : EndsWith(s, suf)

RECURSIVE RStrip(_, _)
RStrip(s, c) ==
  IF Len(s) > 0 /\ s[Len(s)] = c THEN RStrip(SubSeq(s, 1, Len(s) - 1), c) ELSE s

Digit(d) == <<Alphabet[4 + d]>>

RECURSIVE Str(_)
Str(n) == IF n < 10 THEN Digit(n) ELSE Str(n \div 10) \o Digit(n % 10)

RECURSIVE ZeroPad(_, _)
ZeroPad(s, w) == IF Len(s) >= w THEN s ELSE ZeroPad(<<"0">> \o s, w)

\* Python's < on str: first differing code point, else the shorter is less.
RECURSIVE LexLess(_, _)
LexLess(a, b) ==
  IF Len(b) = 0 THEN FALSE
  ELSE IF Len(a) = 0 THEN TRUE
  ELSE IF a[1] # b[1] THEN Ord[a[1]] < Ord[b[1]]
  ELSE LexLess(Tail(a), Tail(b))

\* os.path.splitext(p)[1]: from the last dot of the last path component,
\* unless that dot leads the component.
LastIndexOf(s, c) ==
  IF \E i \in 1..Len(s) : s[i] = c
  THEN CHOOSE i \in 1..Len(s) : s[i] = c /\ \A j \in (i + 1)..Len(s) : s[j] # c
  ELSE 0

SplitExt(p) ==
  LET slash == LastIndexOf(p, "/")
      dot == LastIndexOf(p, ".")
      lead == CHOOSE k \in (slash + 1)..(Len(p) + 1) :
                /\ \A j \in (slash + 1)..(k - 1) : p[j] = "."
                /\ (k = Len(p) + 1 \/ p[k] # ".")
  IN IF dot > slash /\ dot > lead
     THEN [root |-> SubSeq(p, 1, dot - 1), ext |-> SubSeq(p, dot, Len(p))]
     ELSE [root |-> p, ext |-> <<>>]

JPG == <<".", "j", "p", "g">>
JPEG == <<".", "j", "p", "e", "g">>
PNG == <<".", "p", "n", "g">>
WEBP == <<".", "w", "e", "b", "p">>
SVG == <<".", "s", "v", "g">>
ICO == <<".", "i", "c", "o">>

VARIABLES
  \* generate_chapter_urls and the labelling loop of run_bulk
  base_url, total_chapters, chapter_urls, labelled, enum_pc,
  \* get_with_retries
  retries, answers, gwr,
  \* the job list of download_images_threaded
  in_urls, pos, idx, jobs,
  \* the arguments of run_bulk / run_single
  mode, force, max_retries, chapter_num, url_label,
  \* the orchestrator: position, get_total_chapters' result, loop variables
  pc, total, found, ch_idx, label, images, raised,
  \* the disk: output documents per chapter, files of the chapter's image dir
  docs, files,
  \* download_images_threaded: estimate, results, progress bar, return value
  total_est, results, tried, progress, dl_ret,
  \* images_to_pdf: the files handed to img2pdf.convert
  out_files,
  \* what is observed of the run: network calls made, state of each chapter
  netlog, outcome

enumVars == <<base_url, total_chapters, chapter_urls, labelled, enum_pc>>
retryVars == <<retries, answers, gwr>>
nameVars == <<in_urls, pos, idx, jobs>>
argVars == <<mode, force, max_retries, chapter_num, url_label>>
orchVars == <<pc, total, found, ch_idx, label, images, raised>>
diskVars == <<docs, files>>
dlVars == <<total_est, results, tried, progress, dl_ret>>
obsVars == <<netlog, outcome>>
runVars == <<argVars, orchVars, diskVars, dlVars, out_files, obsVars>>
coreVars == <<enumVars, retryVars, nameVars, runVars>>

VARIABLES
  \* layout_fun_fixed_width: its arguments and what it returned
  lay_in, lay_out

VARIABLES
  \* webapp/server.py, one task: TASKS[task_id] and the position of _runner
  t_queue, t_done, t_result, runner_pc, writes,
  \* the lines the task has emitted so far
  emitted,
  \* api_stream's generator: its position and the events it has yielded
  gen_pc, events

VARIABLES
  \* the thread pools of download_images_threaded under the chapter loop:
  \* the workers argument, the orchestrator's position and chapter, its jobs
  workers, o_pc, o_ch, n_jobs,
  \* submitted tasks, pool threads, thread-local sessions, uses of sessions
  tasks, threads, next_tid, sessions, next_sid, used,
  \* total_est, progress' completed count and lock, len(results), bytes written
  est, counter, lock, n_results, wrote

VARIABLES
  \* one call of _wrap_download: its job, server answers and retry budget,
  \* and how it went
  wd_in, wd_out

VARIABLES
  \* webapp/server.py under concurrent start requests: the TASKS dict, each
  \* call's task_id and position, the queue object each call made,
  TASKS, task_id, s_pc, queues,
  \* sys.stdout, the stream each redirect_stdout saved, lines printed per run,
  \* lines that reached the process's own stdout
  sys_stdout, saved, s_prints, lost

srvVars == <<TASKS, task_id, s_pc, queues, sys_stdout, saved, s_prints, lost>>
wdVars == <<wd_in, wd_out>>
poolVars == <<workers, o_pc, o_ch, n_jobs, tasks, threads, next_tid, sessions,
              next_sid, used, est, counter, lock, n_results, wrote>>
layVars == <<lay_in, lay_out>>
taskVars == <<t_queue, t_done, t_result, runner_pc, writes, emitted, gen_pc, events>>
extVars == <<layVars, taskVars, poolVars, wdVars, srvVars>>
notLay == <<coreVars, taskVars, poolVars, wdVars, srvVars>>
notTask == <<coreVars, layVars, poolVars, wdVars, srvVars>>
notPool == <<coreVars, layVars, taskVars, wdVars, srvVars>>
notWd == <<coreVars, layVars, taskVars, poolVars, srvVars>>
notSrv == <<coreVars, layVars, taskVars, poolVars, wdVars>>
vars == <<coreVars, extVars>>

NoCall == [py |-> "nocall"]
LayIdle == lay_in = NoCall /\ lay_out = NoCall
TaskIdle ==
  /\ t_queue = <<>> /\ t_done = FALSE /\ t_result = [py |-> "None"]
  /\ runner_pc = "idle" /\ writes = 0 /\ emitted = <<>>
  /\ gen_pc = "idle" /\ events = <<>>
PoolIdle ==
  /\ workers = 0 /\ o_pc = "idle" /\ o_ch = 0 /\ n_jobs = 0
  /\ tasks = {} /\ threads = {} /\ next_tid = 0 /\ sessions = {}
  /\ next_sid = 0 /\ used = {}
  /\ est = 0 /\ counter = 0 /\ lock = 0 /\ n_results = 0 /\ wrote = 0
WdIdle == wd_in = NoCall /\ wd_out = NoCall
Reqs == 1..MaxReqs
RealStdout == 0
SrvIdle ==
  /\ TASKS = <<>> /\ task_id = [r \in Reqs |-> 0]
  /\ s_pc = [r \in Reqs |-> "idle"] /\ queues = [r \in Reqs |-> <<>>]
  /\ sys_stdout = RealStdout /\ saved = [r \in Reqs |-> RealStdout]
  /\ s_prints = [r \in Reqs |-> 0] /\ lost = {}
ExtIdle == LayIdle /\ TaskIdle /\ PoolIdle /\ WdIdle /\ SrvIdle

\* ---------------------------------------------------- chapter enumeration
Bases ==
  { <<"h", ":", "/", "/", "s">>,
    <<"h", ":", "/", "/", "s", "/">>,
    <<"h", ":", "/", "/", "s", "/", "m", "/", "/">>,
    <<"h", ":", "/", "/", "s", "/", "a", "-", "b">>,
    <<>> }

ChapterSeg(i) == <<"/", "c", "h", "a", "p", "t", "e", "r", "-">> \o Str(i)

generate_chapter_urls_nostrip(b, n) ==
  [i \in 1..n |-> b \o ChapterSeg(i)]

generate_chapter_urls(b, n) ==
  LET base == RStrip(b, "/")
  IN [i \in 1..n |-> base \o ChapterSeg(i)]

\* run_bulk: for idx, chapter_url in enumerate(chapter_urls, 1): label = str(idx)
LabelChapters(urls) ==
  [i \in 1..Len(urls) |-> [label |-> Str(i), address |-> urls[i]]]

EnumIdle ==
  /\ base_url = <<>> /\ total_chapters = 0 /\ chapter_urls = <<>>
  /\ labelled = <<>> /\ enum_pc = "idle"

EnumInit ==
  /\ base_url \in Bases
  /\ total_chapters \in 0..MaxTotal
  /\ chapter_urls = <<>>
  /\ labelled = <<>>
  /\ enum_pc = "call"

GenerateChapterUrls ==
  /\ enum_pc = "call"
  /\ chapter_urls' = generate_chapter_urls(base_url, total_chapters)
  /\ enum_pc' = "urls"
  /\ UNCHANGED <<extVars, base_url, total_chapters, labelled, retryVars, nameVars, runVars>>

EnumerateLabels ==
  /\ enum_pc = "urls"
  /\ labelled' = LabelChapters(chapter_urls)
  /\ enum_pc' = "labelled"
  /\ UNCHANGED <<extVars, base_url, total_chapters, chapter_urls, retryVars, nameVars, runVars>>

\* --------------------------------------------------------- get_with_retries
\* What session.get + raise_for_status does on one attempt: "ok", or the
\* message of the requests.RequestException it raises.
Timeout == <<"t", "i", "m", "e", "o", "u", "t">>
ConnErr == <<"r", "e", "s", "e", "t">>
HttpErr == <<"4", "0", "4">>
OK == <<"o", "k">>
Errors == {Timeout, ConnErr, HttpErr}
TypeError == <<"e", "x", "c", "e", "p", "t", "i", "o", "n", "s">>

\* The loop of get_with_retries over the answers the server gives; returns
\* how the call ends, what it raises, the attempts made and every sleep taken.
RECURSIVE GwrLoop(_, _, _, _, _)
GwrLoop(ans, r, attempt, last_err, slept) ==
  IF attempt > r
  THEN [kind |-> "raise",
        exc |-> IF last_err = None THEN TypeError ELSE last_err,
        network |-> last_err # None,
        attempts |-> attempt - 1, slept |-> slept]
  ELSE IF ans[attempt] = OK
  THEN [kind |-> "return", exc |-> None, network |-> FALSE,
        attempts |-> attempt, slept |-> slept]
  ELSE GwrLoop(ans, r, attempt + 1, ans[attempt],
               Append(slept, BackoffTenths * attempt))

get_with_retries(ans, r) == GwrLoop(ans, r, 1, None, <<>>)

AnswerSeqs(n) == [1..n -> Errors \cup {OK}]

RetryIdle == retries = 0 /\ answers = <<>> /\ gwr = [kind |-> "idle"]

RetryInit ==
  /\ retries \in 0..MaxR
  /\ answers \in AnswerSeqs(retries)
  /\ gwr = [kind |-> "call"]

GetWithRetries ==
  /\ gwr.kind = "call"
  /\ gwr' = get_with_retries(answers, retries)
  /\ UNCHANGED <<extVars, retries, answers, enumVars, nameVars, runVars>>


\* ------------------------------------------- download_images_threaded: jobs
\* An address as urlparse splits it: scheme (already lower-cased) and path.
Url(scheme, path) == [scheme |-> scheme, path |-> path]

U_jpg == Url("https", <<"/", "a", ".", "j", "p", "g">>)
U_PNG == Url("http", <<"/", "b", ".", "P", "N", "G">>)
U_webp == Url("https", <<"/", "c", ".", "w", "e", "b", "p">>)
U_gif == Url("https", <<"/", "x", ".", "g", "i", "f">>)
U_bare == Url("https", <<"/", "p">>)
U_svg == Url("https", <<"/", "i", ".", "s", "v", "g">>)
U_ICO == Url("https", <<"/", "f", ".", "I", "C", "O">>)
U_rel == Url("", <<"/", "i", "c", "o", "n", ".", "p", "n", "g">>)
U_ftp == Url("ftp", <<"/", "a", ".", "j", "p", "g">>)

UrlKinds == {U_jpg, U_PNG, U_webp, U_gif, U_bare, U_svg, U_ICO, U_rel, U_ftp}

_is_valid_image_url_schemeonly(u) ==
  u.scheme \in {"http", "https"}

_is_valid_image_url(u) ==
  IF u.scheme \notin {"http", "https"} THEN FALSE
  ELSE IF EndsWithAny(Lower(u.path), {SVG, ICO}) THEN FALSE
  ELSE TRUE

DestExt(u) ==
  LET ext == Lower(SplitExt(u.path).ext)
  IN IF ext \notin {JPG, JPEG, PNG, WEBP} THEN JPG ELSE ext

DestName_nopad(i, ext) == Str(i) \o ext

\* filename = f"{idx:03d}{ext}"
DestName(i, ext) == ZeroPad(Str(i), PadWidth) \o ext

\* One iteration of "for u in image_urls" (lines 304-314) on the loop state.
JobStep(u, st) ==
  IF ~_is_valid_image_url(u) THEN st
  ELSE LET i == st.idx + 1
       IN [idx |-> i,
           jobs |-> Append(st.jobs,
                     [idx |-> i, url |-> u, dest |-> DestName(i, DestExt(u))])]

RECURSIVE BuildJobsFrom(_, _, _)
BuildJobsFrom(urls, p, st) ==
  IF p > Len(urls) THEN st.jobs
  ELSE BuildJobsFrom(urls, p + 1, JobStep(urls[p], st))

BuildJobs(urls) == BuildJobsFrom(urls, 1, [idx |-> 0, jobs |-> <<>>])

\* The inputs of the job builder: every list of at most MaxShort addresses,
\* and lists of MaxLong addresses (a short head, then one address repeated).
ShortLists == UNION {[1..n -> UrlKinds] : n \in 0..MaxShort}

Inputs ==
  {[head |-> h, fill |-> U_jpg, len |-> Len(h)] : h \in ShortLists}
  \cup {[head |-> h, fill |-> f, len |-> MaxLong] :
          h \in {<<>>, <<U_svg>>}, f \in {U_jpg, U_webp}}

UrlAt(in, p) == IF p <= Len(in.head) THEN in.head[p] ELSE in.fill

NameIdle == in_urls = [len |-> 0] /\ pos = 0 /\ idx = 0 /\ jobs = <<>>

NameInit ==
  /\ in_urls \in Inputs
  /\ pos = 1
  /\ idx = 0
  /\ jobs = <<>>

JobLoop ==
  /\ pos >= 1
  /\ pos <= in_urls.len
  /\ LET st == JobStep(UrlAt(in_urls, pos), [idx |-> idx, jobs |-> jobs])
     IN idx' = st.idx /\ jobs' = st.jobs
  /\ pos' = pos + 1
  /\ UNCHANGED <<extVars, in_urls, enumVars, retryVars, runVars>>

\* ------------------------------------------------------------ page parsing
PyNone == [py |-> "None"]
PyInt(v) == [py |-> "int", v |-> v]

IsDigit(c) == c \in {"0", "1", "2", "3", "4", "5", "6", "7", "8", "9"}

RECURSIVE DigitsValue(_)
DigitsValue(s) ==
  IF Len(s) = 0 THEN 0
  ELSE 10 * DigitsValue(SubSeq(s, 1, Len(s) - 1))
       + (CHOOSE d \in 0..9 : Digit(d) = <<s[Len(s)]>>)

\* int(text): a signed decimal numeral, else ValueError
ParseInt(t) ==
  LET neg == Len(t) > 0 /\ t[1] = "-"
      body == IF neg THEN Tail(t) ELSE t
  IN IF Len(body) > 0 /\ \A i \in 1..Len(body) : IsDigit(body[i])
     THEN [ok |-> TRUE, v |-> IF neg THEN 0 - DigitsValue(body) ELSE DigitsValue(body)]
     ELSE [ok |-> FALSE, v |-> 0]

\* The texts a series page may carry next to a "Total chapters" label.
ValueTexts == {Str(n) : n \in 0..MaxChapters} \cup {<<"x">>, <<"-", "1">>}

\* A series page as served: the answers to the up-to-three requests, whether
\* the body can be read, and the value texts of its "Total chapters" fields.
SeriesPages ==
  [fetch : AnswerSeqs(DefaultRetries), body : BOOLEAN,
   fields : UNION {[1..n -> ValueTexts] : n \in 0..2}]

RECURSIVE FirstParsed(_, _)
FirstParsed(fields, k) ==
  IF k > Len(fields) THEN PyNone
  ELSE IF ParseInt(fields[k]).ok THEN PyInt(ParseInt(fields[k]).v)
  ELSE FirstParsed(fields, k + 1)

get_total_chapters_reraise(page) ==
  LET r == get_with_retries(page.fetch, DefaultRetries)
  IN IF r.kind = "raise" \/ ~page.body
     THEN [kind |-> "raise", val |-> PyNone, exc |-> ConnErr]
     ELSE [kind |-> "return", val |-> FirstParsed(page.fields, 1), exc |-> None]

get_total_chapters(page) ==
  LET r == get_with_retries(page.fetch, DefaultRetries)
  IN IF r.kind = "raise"
     THEN IF r.network THEN [kind |-> "return", val |-> PyNone, exc |-> None]
          ELSE [kind |-> "raise", val |-> PyNone, exc |-> r.exc]
     ELSE IF ~page.body
     THEN [kind |-> "raise", val |-> PyNone, exc |-> ConnErr]
     ELSE [kind |-> "return", val |-> FirstParsed(page.fields, 1), exc |-> None]

\* A chapter page as served: requests, body, content container, img sources.
PageSources == {U_jpg, U_webp, U_svg, U_rel}

ChapterPages ==
  [fetch : AnswerSeqs(DefaultRetries), body : BOOLEAN, content : BOOLEAN,
   srcs : UNION {[1..n -> PageSources] : n \in 0..MaxPageImages}]

IsHttpSrc(u) == u.scheme \in {"http", "https"}

extract_chapter_images(page) ==
  LET r == get_with_retries(page.fetch, DefaultRetries)
  IN IF r.kind = "raise"
     THEN IF r.network THEN [kind |-> "return", val |-> <<>>, exc |-> None]
          ELSE [kind |-> "raise", val |-> <<>>, exc |-> r.exc]
     ELSE IF ~page.body
     THEN [kind |-> "raise", val |-> <<>>, exc |-> ConnErr]
     ELSE IF ~page.content
     THEN [kind |-> "return", val |-> <<>>, exc |-> None]
     ELSE [kind |-> "return", val |-> SelectSeq(page.srcs, IsHttpSrc), exc |-> None]

\* ------------------------------------------------------------- _wrap_download
StreamErr == <<"c", "u", "t">>
NoneText == <<"N", "o", "n", "e">>

\* str(last_err)
StrOf(e) == IF e = None THEN NoneText ELSE e

\* What the server does on one download attempt: the answer to the request,
\* the chunk lengths it delivers, and whether the stream then breaks.
BodyChunks == <<1, 1>>
A_ok == [req |-> OK, chunks |-> BodyChunks, cut |-> FALSE]
A_req == [req |-> Timeout, chunks |-> <<>>, cut |-> FALSE]
A_cut == [req |-> OK, chunks |-> <<1>>, cut |-> TRUE]
AttemptAnswers == {A_ok, A_req, A_cut}

RECURSIVE SumSeq(_)
SumSeq(q) == IF Len(q) = 0 THEN 0 ELSE Head(q) + SumSeq(Tail(q))

WdFinish_noerr(j, st) ==
  [res |-> [idx |-> j.idx, dest |-> j.dest, ok |-> st.ok,
            written |-> st.written, err |-> None],
   touched |-> st.touched, file |-> st.file, advanced |-> st.advanced,
   attempts |-> st.attempts, failures |-> st.failures, slept |-> st.slept]

WdFinish(j, st) ==
  [res |-> [idx |-> j.idx, dest |-> j.dest, ok |-> st.ok,
            written |-> st.written,
            err |-> IF ~st.ok THEN StrOf(st.last_err) ELSE None],
   touched |-> st.touched, file |-> st.file, advanced |-> st.advanced,
   attempts |-> st.attempts, failures |-> st.failures, slept |-> st.slept]

\* for attempt in range(1, max_retries + 1): ... (lines 347-361)
RECURSIVE WdLoop(_, _, _, _, _)
WdLoop(j, atts, r, attempt, st) ==
  IF attempt > r THEN WdFinish(j, st)
  ELSE
    LET a == atts[attempt]
        g == get_with_retries(<<a.req>>, 1)
        n == SumSeq(a.chunks)
        \* slept[k]: the sleeps between failed attempt k and what follows it,
        \* those of get_with_retries first
        failed(e, t, inner) ==
          [t EXCEPT !.last_err = e, !.attempts = attempt,
                    !.failures = @ + 1,
                    !.slept = Append(@, inner \o <<BackoffTenths * attempt>>)]
        opened ==
          [st EXCEPT !.touched = TRUE,
                     !.file = [name |-> j.dest, by |-> j.idx, bytes |-> n,
                               whole |-> ~a.cut],
                     !.written = @ + n,
                     !.advanced = @ + n]
    IN IF g.kind = "raise"
       THEN WdLoop(j, atts, r, attempt + 1, failed(g.exc, st, g.slept))
       ELSE IF a.cut
       THEN WdLoop(j, atts, r, attempt + 1, failed(StreamErr, opened, g.slept))
       ELSE WdFinish(j, [opened EXCEPT !.ok = TRUE, !.attempts = attempt])

NoFile == [name |-> <<>>, by |-> 0, bytes |-> 0, whole |-> FALSE]

_wrap_download(j, atts, r) ==
  WdLoop(j, atts, r, 1,
         [ok |-> FALSE, written |-> 0, last_err |-> None, touched |-> FALSE,
          file |-> NoFile, advanced |-> 0, attempts |-> 0, failures |-> 0,
          slept |-> <<>>])

\* open(dest, "wb") and the writes that follow replace the file of that name
WriteFile(dir, f) == {g \in dir : g.name # f.name} \cup {f}

\* ------------------------------------------------------ layout_fun_fixed_width
\* A Python float is the exact rational [n, d] in lowest terms, d > 0.
RECURSIVE GCD(_, _)
GCD(a, b) == IF b = 0 THEN a ELSE GCD(b, a % b)

Rat(n, d) == LET g == GCD(n, d) IN [n |-> n \div g, d |-> d \div g]
RMul(a, b) == Rat(a.n * b.n, a.d * b.d)
RDiv(a, b) == Rat(a.n * b.d, a.d * b.n)

\* the dpi img2pdf read from the image: None, or a pair of components
DpiValues == {PyNone, PyInt(0), PyInt(-72), PyInt(72), PyInt(DefaultDpi), PyInt(300)}
PyPair(a, b) == [py |-> "tuple", v |-> <<a, b>>]
Dpis == {PyNone} \cup {PyPair(a, b) : a, b \in DpiValues}

\* ndpi[k] if ndpi and ndpi[k] and ndpi[k] > 0 else 96
DpiOf(ndpi, k) ==
  IF ndpi # PyNone /\ ndpi.v[k] # PyNone /\ ndpi.v[k].v # 0 /\ ndpi.v[k].v > 0
  THEN ndpi.v[k].v ELSE DefaultDpi

layout_fun_fixed_width_onedpi(imgwidthpx, imgheightpx, ndpi) ==
  LET page_width_pt == Rat(PageWidthPt, 1)
      dpi_x == DpiOf(ndpi, 1)
      img_w_pt == RMul(Rat(imgwidthpx, dpi_x), Rat(PtPerInch, 1))
      img_h_pt == RMul(Rat(imgheightpx, dpi_x), Rat(PtPerInch, 1))
      scale == IF img_w_pt.n # 0 THEN RDiv(page_width_pt, img_w_pt) ELSE Rat(1, 1)
      scaled_h_pt == RMul(img_h_pt, scale)
  IN <<page_width_pt, scaled_h_pt, page_width_pt, scaled_h_pt>>

layout_fun_fixed_width(imgwidthpx, imgheightpx, ndpi) ==
  LET page_width_pt == Rat(PageWidthPt, 1)
      dpi_x == DpiOf(ndpi, 1)
      dpi_y == DpiOf(ndpi, 2)
      img_w_in == Rat(imgwidthpx, dpi_x)
      img_h_in == Rat(imgheightpx, dpi_y)
      img_w_pt == RMul(img_w_in, Rat(PtPerInch, 1))
      img_h_pt == RMul(img_h_in, Rat(PtPerInch, 1))
      scale == IF img_w_pt.n # 0 THEN RDiv(page_width_pt, img_w_pt) ELSE Rat(1, 1)
      scaled_h_pt == RMul(img_h_pt, scale)
  IN <<page_width_pt, scaled_h_pt, page_width_pt, scaled_h_pt>>

LayInit ==
  /\ lay_in \in [w : 0..MaxPx, h : 0..MaxPx, ndpi : Dpis]
  /\ lay_out = NoCall

\* img2pdf calls the layout rule for one image
LayoutFun ==
  /\ lay_out = NoCall /\ lay_in # NoCall
  /\ lay_out' = layout_fun_fixed_width(lay_in.w, lay_in.h, lay_in.ndpi)
  /\ UNCHANGED <<lay_in, notLay>>

\* --------------------------------------------------------------- images_to_pdf
RECURSIVE SortByName(_)
SortByName(S) ==
  IF S = {} THEN <<>>
  ELSE LET m == CHOOSE x \in S : \A y \in S \ {x} : LexLess(x.name, y.name)
       IN <<m>> \o SortByName(S \ {m})

IsImageName(n) == EndsWithAny(Lower(n), {JPG, JPEG, PNG, WEBP})

SrcFiles(dir) == SortByName({f \in dir : IsImageName(f.name)})

ConvertDir == <<"_", "c", "/">>

\* for p in src_files: ... (lines 233-251); convertible names the files that
\* Pillow manages to open and save.
RECURSIVE Normalize(_, _, _)
Normalize(src, k, convertible) ==
  IF k > Len(src) THEN <<>>
  ELSE LET p == src[k]
           ext == Lower(SplitExt(p.name).ext)
           rest == Normalize(src, k + 1, convertible)
       IN IF ext \in {JPG, JPEG, PNG} THEN <<p>> \o rest
          ELSE IF p.name \in convertible
          THEN <<[p EXCEPT !.name = ConvertDir \o SplitExt(p.name).root \o JPG]>>
               \o rest
          ELSE rest

images_to_pdf_openfirst(dir, convertible, buildable) ==
  LET src == SrcFiles(dir)
      out == Normalize(src, 1, convertible)
  IN IF Len(src) = 0 THEN [kind |-> "return", val |-> FALSE, opened |-> FALSE, out |-> <<>>]
     ELSE IF Len(out) = 0 THEN [kind |-> "return", val |-> FALSE, opened |-> TRUE, out |-> <<>>]
     ELSE IF ~buildable THEN [kind |-> "raise", val |-> FALSE, opened |-> TRUE, out |-> out]
     ELSE [kind |-> "return", val |-> TRUE, opened |-> TRUE, out |-> out]

\* How images_to_pdf ends, and what it hands to img2pdf.convert.
images_to_pdf(dir, convertible, buildable) ==
  LET src == SrcFiles(dir)
      out == Normalize(src, 1, convertible)
  IN IF Len(src) = 0 THEN [kind |-> "return", val |-> FALSE, opened |-> FALSE, out |-> <<>>]
     ELSE IF Len(out) = 0 THEN [kind |-> "return", val |-> FALSE, opened |-> FALSE, out |-> <<>>]
     ELSE IF ~buildable THEN [kind |-> "raise", val |-> FALSE, opened |-> TRUE, out |-> out]
     ELSE [kind |-> "return", val |-> TRUE, opened |-> TRUE, out |-> out]

\* ---------------------------------------------------- run_bulk / run_single
SeriesUrl == <<"h", ":", "/", "/", "s", "/", "m", "/">>
Chapters == 1..MaxChapters
Unset == [py |-> "unset"]

\* What an earlier pass may have left in a chapter's image directory.
OldFile(n) == [name |-> n, by |-> 0, bytes |-> SumSeq(BodyChunks), whole |-> TRUE]
Leftovers == { {}, {OldFile(<<"0", "0", "2">> \o JPG)} }

\* (chapter_num, what chapter_label_from_url finds in chapter_url)
LabelArgs == {<<None, None>>, <<None, <<"5">>>>, <<<<"7">>, <<"5">>>>}

LocalsIdle ==
  /\ images = <<>> /\ files = {} /\ total_est = 0 /\ results = <<>>
  /\ tried = <<>> /\ progress = 0 /\ dl_ret = Unset /\ out_files = <<>>

RunIdle ==
  /\ mode = "none" /\ force = FALSE /\ max_retries = 0
  /\ chapter_num = None /\ url_label = None
  /\ pc = "idle" /\ total = PyNone /\ found = "-" /\ ch_idx = 0
  /\ label = <<>> /\ raised = None
  /\ docs = [c \in Chapters |-> "absent"]
  /\ netlog = {} /\ outcome = [c \in Chapters |-> "PENDING"]
  /\ LocalsIdle

RunInit ==
  /\ mode \in {"bulk", "single"}
  /\ force \in BOOLEAN
  /\ max_retries \in 0..MaxRetries
  /\ \E a \in (IF mode = "single" THEN LabelArgs ELSE {<<None, None>>}) :
       chapter_num = a[1] /\ url_label = a[2]
  /\ pc = "start" /\ total = PyNone /\ found = "-" /\ ch_idx = 0
  /\ label = <<>> /\ raised = None
  /\ docs \in [Chapters -> {"absent", "previous"}]
  /\ (mode = "single" => \A c \in Chapters : c > 1 => docs[c] = "absent")
  /\ netlog = {} /\ outcome = [c \in Chapters |-> "PENDING"]
  /\ LocalsIdle

\* os.path.exists(pdf_path)
Exists(c) == docs[c] # "absent"

SkipChapter_inverted(c) == Exists(c) /\ force

\* if os.path.exists(pdf_path) and not force
SkipChapter(c) == Exists(c) /\ ~force

IsNumeral(t) ==
  \E k \in 0..1 :
    /\ Len(t) > k
    /\ (k = 1 => t[1] = "-")
    /\ \A i \in (k + 1)..Len(t) : Ord[t[i]] >= Ord["0"] /\ Ord[t[i]] <= Ord["9"]

\* How discovery went, read off the page served.
Discovery(page) ==
  IF \A k \in 1..DefaultRetries : page.fetch[k] # OK THEN "fetch_failed"
  ELSE IF ~page.body THEN "body_failed"
  ELSE IF page.fields = <<>> THEN "absent"
  ELSE IF \A k \in 1..Len(page.fields) : ~IsNumeral(page.fields[k]) THEN "unparsable"
  ELSE "count"

Falsy(v) == v = PyNone \/ v = PyInt(0)

\* every way get_total_chapters can end on a series page the site may serve,
\* with how the discovery went
DiscoverResults ==
  {[r |-> get_total_chapters(page), found |-> Discovery(page)] : page \in SeriesPages}

\* run_bulk up to the chapter loop (lines 403-421)
BulkDiscover ==
  /\ mode = "bulk" /\ pc = "start"
  /\ \E d \in DiscoverResults :
       /\ found' = d.found
       /\ netlog' = netlog \cup {<<"series", 0>>}
       /\ IF d.r.kind = "raise"
          THEN pc' = "raised" /\ raised' = d.r.exc /\ UNCHANGED <<total, ch_idx>>
          ELSE /\ total' = d.r.val
               /\ raised' = raised
               /\ IF Falsy(d.r.val) THEN pc' = "done" /\ ch_idx' = ch_idx
                  ELSE pc' = "loop" /\ ch_idx' = 1
  /\ UNCHANGED <<extVars, argVars, label, images, diskVars, dlVars, out_files, outcome,
                 enumVars, retryVars, nameVars>>

\* chapter_urls = generate_chapter_urls(series_url, total)
ChapterUrls == generate_chapter_urls(SeriesUrl, total.v)

\* the chapter loop: "exists and not force" (lines 423-430)
BulkSkip ==
  /\ mode = "bulk" /\ pc = "loop" /\ ch_idx <= Len(ChapterUrls)
  /\ SkipChapter(ch_idx)
  /\ label' = Str(ch_idx)
  /\ outcome' = [outcome EXCEPT ![ch_idx] = "SKIPPED"]
  /\ ch_idx' = ch_idx + 1
  /\ UNCHANGED <<extVars, argVars, pc, total, found, images, raised, diskVars, dlVars,
                 out_files, netlog, enumVars, retryVars, nameVars>>

BulkEnter ==
  /\ mode = "bulk" /\ pc = "loop" /\ ch_idx <= Len(ChapterUrls)
  /\ ~SkipChapter(ch_idx)
  /\ label' = Str(ch_idx)
  /\ outcome' = [outcome EXCEPT ![ch_idx] = "FETCHING"]
  /\ pc' = "fetch"
  /\ UNCHANGED <<extVars, argVars, total, found, ch_idx, images, raised, diskVars, dlVars,
                 out_files, netlog, enumVars, retryVars, nameVars>>

BulkEnd ==
  /\ mode = "bulk" /\ pc = "loop" /\ ch_idx > Len(ChapterUrls)
  /\ pc' = "done"
  /\ UNCHANGED <<extVars, argVars, total, found, ch_idx, label, images, raised, diskVars,
                 dlVars, out_files, obsVars, enumVars, retryVars, nameVars>>

\* label = chapter_num or chapter_label_from_url(chapter_url) or "custom"
SingleLabel ==
  IF chapter_num # None THEN chapter_num
  ELSE IF url_label # None THEN url_label
  ELSE <<"c", "u", "s", "t", "o", "m">>

\* run_single up to the page fetch (lines 459-468)
SingleSkip ==
  /\ mode = "single" /\ pc = "start"
  /\ SkipChapter(1)
  /\ label' = SingleLabel
  /\ ch_idx' = 1
  /\ outcome' = [outcome EXCEPT ![1] = "SKIPPED"]
  /\ pc' = "done"
  /\ UNCHANGED <<extVars, argVars, total, found, images, raised, diskVars, dlVars,
                 out_files, netlog, enumVars, retryVars, nameVars>>

SingleEnter ==
  /\ mode = "single" /\ pc = "start"
  /\ ~SkipChapter(1)
  /\ label' = SingleLabel
  /\ ch_idx' = 1
  /\ outcome' = [outcome EXCEPT ![1] = "FETCHING"]
  /\ pc' = "fetch"
  /\ UNCHANGED <<extVars, argVars, total, found, images, raised, diskVars, dlVars,
                 out_files, netlog, enumVars, retryVars, nameVars>>

\* "continue" / "return" after a chapter that needs no further step
Leave == IF mode = "bulk" THEN pc' = "loop" /\ ch_idx' = ch_idx + 1
         ELSE pc' = "done" /\ ch_idx' = ch_idx

NoImages_never(v) == FALSE

\* if not images
NoImages(v) == v = <<>>

\* every way extract_chapter_images can end on a page the site may serve
ExtractResults == {extract_chapter_images(page) : page \in ChapterPages}

\* images = extract_chapter_images(...); if not images: ... (lines 437-440)
ExtractChapterImages ==
  /\ pc = "fetch"
  /\ \E r \in ExtractResults :
       /\ netlog' = netlog \cup {<<"page", ch_idx>>}
       /\ IF r.kind = "raise"
          THEN /\ pc' = "raised" /\ raised' = r.exc
               /\ UNCHANGED <<images, ch_idx, outcome>>
          ELSE IF NoImages(r.val)
          THEN /\ outcome' = [outcome EXCEPT ![ch_idx] = "NO_IMAGES"]
               /\ Leave
               /\ UNCHANGED <<images, raised>>
          ELSE /\ images' = r.val
               /\ outcome' = [outcome EXCEPT ![ch_idx] = "DOWNLOADING"]
               /\ pc' = "jobs"
               /\ UNCHANGED <<ch_idx, raised>>
  /\ UNCHANGED <<extVars, argVars, total, found, label, diskVars, dlVars, out_files,
                 enumVars, retryVars, nameVars>>

\* _head_content_length on what the server answers to HEAD
ProbeAnswers == {"length", "no_header", "error"}
_head_content_length(a) == IF a = "length" THEN SumSeq(BodyChunks) ELSE 0

\* download_images_threaded up to the download pool (lines 299-338)
DownloadStart ==
  /\ pc = "jobs"
  /\ files' \in Leftovers
  /\ jobs' = BuildJobs(images)
  /\ in_urls' = [head |-> images, fill |-> U_jpg, len |-> Len(images)]
  /\ pos' = Len(images) + 1
  /\ idx' = Len(jobs')
  /\ \E probes \in [1..Len(jobs') -> ProbeAnswers] :
       total_est' = SumSeq([k \in 1..Len(jobs') |-> _head_content_length(probes[k])])
  /\ netlog' = IF jobs' = <<>> THEN netlog ELSE netlog \cup {<<"probe", ch_idx>>}
  /\ results' = <<>> /\ tried' = <<>> /\ progress' = 0
  /\ pc' = "download"
  /\ UNCHANGED <<extVars, argVars, total, found, ch_idx, label, images, raised, docs,
                 dl_ret, out_files, outcome, enumVars, retryVars>>

Recorded == {results[k].idx : k \in 1..Len(results)}

\* one job run by the pool and collected by as_completed (lines 340-369)
WrapDownload ==
  /\ pc = "download"
  /\ \E k \in 1..Len(jobs) :
       /\ jobs[k].idx \notin Recorded
       /\ \E atts \in [1..max_retries -> AttemptAnswers] :
            LET w == _wrap_download(jobs[k], atts, max_retries)
            IN /\ results' = Append(results, w.res)
               /\ tried' = Append(tried, [idx |-> jobs[k].idx,
                                          exhausted |-> w.failures = max_retries])
               /\ files' = IF w.touched THEN WriteFile(files, w.file) ELSE files
               /\ progress' = progress + w.advanced
               /\ netlog' = IF w.attempts = 0 THEN netlog
                            ELSE netlog \cup {<<"image", ch_idx>>}
  /\ UNCHANGED <<extVars, argVars, orchVars, docs, total_est, dl_ret, out_files, outcome,
                 enumVars, retryVars, nameVars>>

\* the end of download_images_threaded (lines 371-388): no return statement;
\* results stays as the record of what the pass collected
DownloadReturn ==
  /\ pc = "download"
  /\ Len(results) = Len(jobs)
  /\ dl_ret' = PyNone
  /\ total_est' = 0
  /\ outcome' = [outcome EXCEPT ![ch_idx] = "ASSEMBLING"]
  /\ pc' = "assemble"
  /\ UNCHANGED <<extVars, argVars, total, found, ch_idx, label, images, raised, diskVars,
                 results, tried, progress, out_files, netlog,
                 enumVars, retryVars, nameVars>>



\* how one job can end, as the directory and the network see it
JobEnds(j, r) ==
  {LET w == _wrap_download(j, atts, r)
   IN [touched |-> w.touched, file |-> w.file, requested |-> w.attempts > 0] :
     atts \in [1..r -> AttemptAnswers]}

\* every job of one call run to its end: the directories the pool can leave
RECURSIVE RunJobs(_, _, _, _)
RunJobs(js, k, r, S) ==
  IF k > Len(js) THEN S
  ELSE RunJobs(js, k + 1, r,
               {[dir |-> IF w.touched THEN WriteFile(st.dir, w.file) ELSE st.dir,
                 requested |-> st.requested \/ w.requested] :
                  st \in S, w \in JobEnds(js[k], r)})

\* download_images_threaded(images, img_dir, ...) as the orchestrator sees it:
\* one call, from makedirs to the return (lines 443-445, 296-388)
DownloadImagesThreaded ==
  /\ pc = "jobs"
  /\ LET js == BuildJobs(images)
     IN \E st \in RunJobs(js, 1, max_retries,
                          {[dir |-> left, requested |-> FALSE] : left \in Leftovers}) :
          /\ files' = st.dir
          /\ netlog' = netlog
               \cup (IF js = <<>> THEN {} ELSE {<<"probe", ch_idx>>})
               \cup (IF st.requested THEN {<<"image", ch_idx>>} ELSE {})
  /\ dl_ret' = PyNone
  /\ outcome' = [outcome EXCEPT ![ch_idx] = "ASSEMBLING"]
  /\ pc' = "assemble"
  /\ UNCHANGED <<extVars, argVars, total, found, ch_idx, label, images, raised, docs,
                 total_est, results, tried, progress, out_files,
                 enumVars, retryVars, nameVars>>

WebpNames == {f.name : f \in {g \in files : EndsWith(Lower(g.name), WEBP)}}

\* images_to_pdf(img_dir, pdf_path) (lines 446, 484), where Pillow converts
\* one of the sets in Conv and img2pdf succeeds as one of Build says
ImagesToPdfIn(Conv, Build) ==
  /\ pc = "assemble"
  /\ \E convertible \in Conv, buildable \in Build :
       LET r == images_to_pdf(files, convertible, buildable)
       IN /\ out_files' = r.out
          /\ docs' = IF ~r.opened THEN docs
                     ELSE [docs EXCEPT ![ch_idx] =
                             IF r.kind = "raise" THEN "truncated" ELSE "written"]
          /\ IF r.kind = "raise"
             THEN pc' = "raised" /\ raised' = StreamErr /\ outcome' = outcome
             ELSE /\ pc' = "assembled"
                  /\ raised' = raised
                  /\ outcome' = [outcome EXCEPT ![ch_idx] =
                                   IF r.val THEN "DONE" ELSE "NO_DOCUMENT"]
  /\ UNCHANGED <<extVars, argVars, total, found, ch_idx, label, images, files, dlVars,
                 netlog, enumVars, retryVars, nameVars>>

ImagesToPdf == ImagesToPdfIn(SUBSET WebpNames, BOOLEAN)

\* the same call where every conversion and the build succeed
ImagesToPdfClean == ImagesToPdfIn({WebpNames}, {TRUE})

\* the end of the loop body: the chapter's locals go, the next chapter's
\* directory has not been looked at yet
ChapterEnd ==
  /\ pc = "assembled"
  /\ Leave
  /\ IF mode = "bulk"
     THEN /\ images' = <<>> /\ files' = {} /\ total_est' = 0
          /\ results' = <<>> /\ tried' = <<>> /\ progress' = 0
          /\ dl_ret' = Unset /\ out_files' = <<>>
          /\ in_urls' = [len |-> 0] /\ pos' = 0 /\ idx' = 0 /\ jobs' = <<>>
     ELSE UNCHANGED <<images, files, dlVars, out_files, nameVars>>
  /\ UNCHANGED <<extVars, argVars, total, found, label, raised, docs, obsVars,
                 enumVars, retryVars>>

\* --------------------------------------------------------- specifications
SpecEnumInit == EnumInit /\ RetryIdle /\ NameIdle /\ RunIdle /\ ExtIdle
SpecEnumNext == GenerateChapterUrls \/ EnumerateLabels
SpecEnum == SpecEnumInit /\ [][SpecEnumNext]_vars

SpecRetryInit == RetryInit /\ EnumIdle /\ NameIdle /\ RunIdle /\ ExtIdle
SpecRetryNext == GetWithRetries
SpecRetry == SpecRetryInit /\ [][SpecRetryNext]_vars

SpecNamesInit == NameInit /\ EnumIdle /\ RetryIdle /\ RunIdle /\ ExtIdle
SpecNamesNext == JobLoop
SpecNames == SpecNamesInit /\ [][SpecNamesNext]_vars

SpecInit == RunInit /\ EnumIdle /\ RetryIdle /\ NameIdle /\ ExtIdle
Next ==
  \/ BulkDiscover \/ BulkSkip \/ BulkEnter \/ BulkEnd
  \/ SingleSkip \/ SingleEnter
  \/ ExtractChapterImages \/ DownloadImagesThreaded
  \/ ImagesToPdf \/ ChapterEnd
Spec == SpecInit /\ [][Next]_vars

\* One chapter from the call of download_images_threaded to the end of
\* images_to_pdf, job by job.
HttpLists ==
  {l \in UNION {[1..n -> PageSources] : n \in 1..MaxImages} :
     \A k \in 1..Len(l) : IsHttpSrc(l[k])}

DownloadInit ==
  /\ mode = "single" /\ force = FALSE /\ max_retries \in 0..MaxRetries
  /\ chapter_num = None /\ url_label = None
  /\ pc = "jobs" /\ total = PyNone /\ found = "-" /\ ch_idx = 1
  /\ label = SingleLabel /\ raised = None
  /\ images \in HttpLists
  /\ docs = [c \in Chapters |-> "absent"]
  /\ files = {} /\ total_est = 0 /\ results = <<>> /\ tried = <<>>
  /\ progress = 0 /\ dl_ret = Unset /\ out_files = <<>>
  /\ netlog = {<<"page", 1>>}
  /\ outcome = [c \in Chapters |-> IF c = 1 THEN "DOWNLOADING" ELSE "PENDING"]

SpecDownloadInit == DownloadInit /\ EnumIdle /\ RetryIdle /\ NameIdle /\ ExtIdle
SpecDownloadNext ==
  DownloadStart \/ WrapDownload \/ DownloadReturn \/ ImagesToPdfClean
SpecDownload == SpecDownloadInit /\ [][SpecDownloadNext]_vars

\* images_to_pdf on an image directory as an earlier pass may have left it:
\* the chapter page held one .svg image, so the pass had no job and wrote
\* nothing.
DirFile(n, e) == OldFile(ZeroPad(Str(n), PadWidth) \o e)
DirFiles ==
  {DirFile(1, WEBP), DirFile(2, JPG), DirFile(3, WEBP),
   DirFile(4, <<".", "P", "N", "G">>), DirFile(5, SVG)}

AssembleInit ==
  /\ mode = "single" /\ force \in BOOLEAN /\ max_retries \in {0, MaxRetries}
  /\ chapter_num = None /\ url_label = None
  /\ pc = "assemble" /\ total = PyNone /\ found = "-" /\ ch_idx = 1
  /\ label = SingleLabel /\ raised = None
  /\ images = <<U_svg>>
  /\ docs = [c \in Chapters |-> IF c = 1 /\ force THEN "previous" ELSE "absent"]
  /\ files \in SUBSET DirFiles
  /\ total_est = 0 /\ results = <<>> /\ tried = <<>>
  /\ progress = 0 /\ dl_ret = PyNone /\ out_files = <<>>
  /\ in_urls = [head |-> images, fill |-> U_jpg, len |-> 1]
  /\ pos = 2 /\ idx = 0 /\ jobs = <<>>
  /\ netlog = {<<"page", 1>>}
  /\ outcome = [c \in Chapters |-> IF c = 1 THEN "ASSEMBLING" ELSE "PENDING"]

SpecAssembleInit == AssembleInit /\ EnumIdle /\ RetryIdle /\ ExtIdle
SpecAssembleNext == ImagesToPdf
SpecAssemble == SpecAssembleInit /\ [][SpecAssembleNext]_vars

SpecLayoutInit ==
  LayInit /\ TaskIdle /\ PoolIdle /\ WdIdle /\ SrvIdle
  /\ EnumIdle /\ RetryIdle /\ NameIdle /\ RunIdle
SpecLayoutNext == LayoutFun
SpecLayout == SpecLayoutInit /\ [][SpecLayoutNext]_vars

\* ------------------------------------------------------- webapp/server.py
\* A text written to the queue is a sequence of characters, LF and CR among
\* them.
LF == "LF"
CR == "CR"

\* text that ends each of the lines ls with eol
RECURSIVE Encode(_, _)
Encode(ls, eol) == IF ls = <<>> THEN <<>> ELSE Head(ls) \o eol \o Encode(Tail(ls), eol)

\* msg.replace("\r", "")
DropCR(msg) == SelectSeq(msg, LAMBDA c : c # CR)

\* msg.splitlines()
RECURSIVE SplitLines(_)
SplitLines(msg) ==
  IF msg = <<>> THEN <<>>
  ELSE IF \E k \in 1..Len(msg) : msg[k] = LF
  THEN LET k == CHOOSE i \in 1..Len(msg) :
                  msg[i] = LF /\ \A j \in 1..(i - 1) : msg[j] # LF
       IN <<SubSeq(msg, 1, k - 1)>> \o SplitLines(SubSeq(msg, k + 1, Len(msg)))
  ELSE <<msg>>

StartingLine == <<"S", "t", "a", "r", "t">>
FinishedLine == <<"T", "a", "s", "k", " ", "f", "i", "n", "i", "s", "h", "e", "d">>

\* what one write of the run carries: whole lines, ended by LF or CR LF
WrittenLines == {<<>>, <<<<"a">>>>, <<<<"a">>, <<>>, <<"b">>>>}
Eols == {<<LF>>, <<CR, LF>>}

Results == {[ok |-> TRUE], [ok |-> FALSE, error |-> "invalid_params"],
            [ok |-> FALSE, error |-> "exception"]}

Data(l) == [event |-> "data", line |-> l]
Retry == [event |-> "retry"]
End(r) == [event |-> "end", data |-> r]

TaskInit ==
  /\ t_queue = <<>> /\ t_done = FALSE /\ t_result = PyNone
  /\ runner_pc = "start" /\ writes = 0 /\ emitted = <<>>
  /\ gen_pc = "open" /\ events = <<>>

\* q.put(f"Starting {mode} task\n") (line 60)
RunnerStart ==
  /\ runner_pc = "start"
  /\ t_queue' = Append(t_queue, StartingLine \o <<LF>>)
  /\ emitted' = Append(emitted, StartingLine)
  /\ runner_pc' = "run"
  /\ UNCHANGED <<t_done, t_result, writes, gen_pc, events, notTask>>

\* QueueWriter.write(buf) under redirect_stdout (lines 33-39, 62)
RunnerWrite ==
  /\ runner_pc = "run" /\ writes < MaxWrites
  /\ \E ls \in WrittenLines, eol \in Eols :
       LET buf == Encode(ls, eol)
       IN /\ t_queue' = IF buf = <<>> THEN t_queue ELSE Append(t_queue, buf)
          /\ emitted' = emitted \o ls
  /\ writes' = writes + 1
  /\ UNCHANGED <<t_done, t_result, runner_pc, gen_pc, events, notTask>>

\* TASKS[task_id]["result"] = ... in the try or in the except (lines 80-108)
RunnerResult ==
  /\ runner_pc = "run"
  /\ t_result' \in Results
  /\ runner_pc' = "finally"
  /\ UNCHANGED <<t_queue, t_done, writes, emitted, gen_pc, events, notTask>>

\* finally: TASKS[task_id]["done"] = True (line 110)
RunnerDone ==
  /\ runner_pc = "finally"
  /\ t_done' = TRUE
  /\ runner_pc' = "finished"
  /\ UNCHANGED <<t_queue, t_result, writes, emitted, gen_pc, events, notTask>>

\* q.put("Task finished\n") (line 111)
RunnerFinished ==
  /\ runner_pc = "finished"
  /\ t_queue' = Append(t_queue, FinishedLine \o <<LF>>)
  /\ emitted' = Append(emitted, FinishedLine)
  /\ runner_pc' = "end"
  /\ UNCHANGED <<t_done, t_result, writes, gen_pc, events, notTask>>

\* yield "retry: 1500\n\n" (line 133)
GenOpen ==
  /\ gen_pc = "open"
  /\ events' = Append(events, Retry)
  /\ gen_pc' = "get"
  /\ UNCHANGED <<t_queue, t_done, t_result, runner_pc, writes, emitted, notTask>>

\* msg = q.get(timeout=0.5) and the yields of its lines (lines 137-140)
GenGet ==
  /\ gen_pc = "get" /\ t_queue # <<>>
  /\ LET lines == SplitLines(DropCR(Head(t_queue)))
     IN events' = events \o [k \in 1..Len(lines) |-> Data(lines[k])]
  /\ t_queue' = Tail(t_queue)
  /\ gen_pc' = "done?"
  /\ UNCHANGED <<t_done, t_result, runner_pc, writes, emitted, notTask>>

\* except queue.Empty: pass (lines 141-142)
GenEmpty ==
  /\ gen_pc = "get" /\ t_queue = <<>>
  /\ gen_pc' = "done?"
  /\ UNCHANGED <<t_queue, t_done, t_result, runner_pc, writes, emitted, events,
                 notTask>>

\* if t["done"] ... (line 143, left operand)
GenReadDone ==
  /\ gen_pc = "done?"
  /\ gen_pc' = IF t_done THEN "empty?" ELSE "get"
  /\ UNCHANGED <<t_queue, t_done, t_result, runner_pc, writes, emitted, events,
                 notTask>>

\* ... and q.empty(): yield the end event and break (lines 143-145)
GenReadEmpty ==
  /\ gen_pc = "empty?"
  /\ IF t_queue = <<>>
     THEN events' = Append(events, End(t_result)) /\ gen_pc' = "closed"
     ELSE events' = events /\ gen_pc' = "get"
  /\ UNCHANGED <<t_queue, t_done, t_result, runner_pc, writes, emitted,
                 notTask>>

SpecStreamInit ==
  TaskInit /\ LayIdle /\ PoolIdle /\ WdIdle /\ SrvIdle
  /\ EnumIdle /\ RetryIdle /\ NameIdle /\ RunIdle
SpecStreamNext ==
  \/ RunnerStart \/ RunnerWrite \/ RunnerResult \/ RunnerDone \/ RunnerFinished
  \/ GenOpen \/ GenGet \/ GenEmpty \/ GenReadDone \/ GenReadEmpty
SpecStream == SpecStreamInit /\ [][SpecStreamNext]_vars

\* ------------------------------------------- the thread pools of a chapter
\* One ThreadPoolExecutor(max_workers=workers) for the probes, then one for
\* the downloads, per chapter, under the chapter loop of run_bulk.  A task is
\* one submitted call; a thread belongs to the pool that spawned it.
MainThread == 0
MainSession == 0
ChunkLen == 1

NewTask(c, kind, j) ==
  [ch |-> c, kind |-> kind, j |-> j, st |-> "queued", by |-> 0,
   left |-> 0, step |-> "-", snap |-> 0, ans |-> "-", size |-> 0]

PoolTasks(c, kind) == {t \in tasks : t.ch = c /\ t.kind = kind}
PoolThreads(c, kind) == {th \in threads : th.pool = <<c, kind>>}
Busy(th) == \E t \in tasks : t.st = "running" /\ t.by = th.id
SetTask(t, u) == (tasks \ {t}) \cup {u}

CanSpawn_unbounded(n, w) == TRUE

\* ThreadPoolExecutor spawns a thread while fewer than max_workers exist
CanSpawn(n, w) == n < w

Joined_nowait(P) == TRUE

\* leaving the "with ThreadPoolExecutor" block waits for every task
Joined(P) == \A t \in P : t.st = "done"

LockFree_always(l) == TRUE

\* progress.advance updates the task under the Progress object's lock
LockFree(l) == l = 0

thread_session_global(tid, ss, fresh) ==
  IF \E p \in ss : p[1] = -1
  THEN [sid |-> (CHOOSE p \in ss : p[1] = -1)[2], ss |-> ss, made |-> FALSE]
  ELSE [sid |-> fresh, ss |-> ss \cup {<<-1, fresh>>}, made |-> TRUE]

\* thread_session(): the session kept in the calling thread's _thread_local
thread_session(tid, ss, fresh) ==
  IF \E p \in ss : p[1] = tid
  THEN [sid |-> (CHOOSE p \in ss : p[1] = tid)[2], ss |-> ss, made |-> FALSE]
  ELSE [sid |-> fresh, ss |-> ss \cup {<<tid, fresh>>}, made |-> TRUE]

RECURSIVE SumSizes(_)
SumSizes(S) ==
  IF S = {} THEN 0
  ELSE LET t == CHOOSE x \in S : TRUE IN t.size + SumSizes(S \ {t})

PoolInit ==
  /\ workers \in 1..MaxWorkers
  /\ o_pc = "fetch" /\ o_ch = 1 /\ n_jobs = 0
  /\ tasks = {} /\ threads = {} /\ next_tid = 1 /\ sessions = {}
  /\ next_sid = 1 /\ used = {}
  /\ est = 0 /\ counter = 0 /\ lock = 0 /\ n_results = 0 /\ wrote = 0

\* "continue" or the end of the loop body
NextChapter ==
  /\ IF o_ch < MaxChapters THEN o_ch' = o_ch + 1 /\ o_pc' = "fetch"
     ELSE o_ch' = o_ch /\ o_pc' = "end"
  /\ n_jobs' = 0 /\ est' = 0 /\ counter' = 0 /\ n_results' = 0 /\ wrote' = 0

\* images = extract_chapter_images(session, chapter_url) and the job list
\* (lines 437-440, 302-314)
PoolFetch ==
  /\ o_pc = "fetch"
  /\ used' = used \cup {<<MainSession, MainThread>>}
  /\ \E n \in 0..MaxPoolJobs :
       IF n = 0 THEN NextChapter
       ELSE /\ n_jobs' = n /\ o_pc' = "probe"
            /\ UNCHANGED <<o_ch, est, counter, n_results, wrote>>
  /\ UNCHANGED <<workers, tasks, threads, next_tid, sessions, next_sid, lock,
                 notPool>>

\* total_est = 0; pool.map(_head_content_length, ...) (lines 322-324)
ProbeSubmit ==
  /\ o_pc = "probe"
  /\ tasks' = tasks \cup {NewTask(o_ch, "probe", j) : j \in 1..n_jobs}
  /\ est' = 0
  /\ o_pc' = "probe_wait"
  /\ UNCHANGED <<workers, o_ch, n_jobs, threads, next_tid, sessions, next_sid,
                 used, counter, lock, n_results, wrote,
                 notPool>>

\* a pool thread takes the next queued task of its pool and, as the task's
\* first step, calls thread_session() (lines 287, 345)
TaskStart ==
  \E t \in tasks :
    /\ t.st = "queued"
    /\ \A u \in PoolTasks(t.ch, t.kind) : u.st = "queued" => u.j >= t.j
    /\ LET P == PoolThreads(t.ch, t.kind)
           idle == {th \in P : ~Busy(th)}
       IN \E tid \in {th.id : th \in idle}
                   \cup (IF idle = {} /\ CanSpawn(Cardinality(P), workers)
                         THEN {next_tid} ELSE {}) :
            LET s == thread_session(tid, sessions, next_sid)
            IN /\ threads' = threads \cup {[id |-> tid, pool |-> <<t.ch, t.kind>>]}
               /\ next_tid' = IF tid = next_tid THEN next_tid + 1 ELSE next_tid
               /\ sessions' = s.ss
               /\ next_sid' = IF s.made THEN next_sid + 1 ELSE next_sid
               /\ used' = used \cup {<<s.sid, tid>>}
               /\ \E n \in (IF t.kind = "dl" THEN 0..MaxChunks ELSE {0}) :
                    tasks' = SetTask(t, [t EXCEPT !.st = "running", !.by = tid,
                                                  !.left = n])
    /\ UNCHANGED <<workers, o_pc, o_ch, n_jobs, est, counter, lock, n_results,
                   wrote, notPool>>

\* _head_content_length returns: the declared length, or 0 (lines 288-293)
ProbeFinish ==
  \E t \in tasks :
    /\ t.st = "running" /\ t.kind = "probe"
    /\ \E a \in ProbeAnswers :
         tasks' = SetTask(t, [t EXCEPT !.st = "done", !.ans = a,
                                       !.size = _head_content_length(a)])
    /\ UNCHANGED <<workers, o_pc, o_ch, n_jobs, threads, next_tid, sessions,
                   next_sid, used, est, counter, lock, n_results, wrote,
                   notPool>>

\* the sizes are summed and the probe pool is left (lines 323-325)
ProbeJoin ==
  /\ o_pc = "probe_wait"
  /\ Joined(PoolTasks(o_ch, "probe"))
  /\ est' = SumSizes({t \in PoolTasks(o_ch, "probe") : t.st = "done"})
  /\ tasks' = {t \in tasks : ~(t.ch = o_ch /\ t.kind = "probe" /\ t.st = "done")}
  /\ threads' = {th \in threads : th.pool # <<o_ch, "probe">> \/ Busy(th)}
  /\ o_pc' = "download"
  /\ UNCHANGED <<workers, o_ch, n_jobs, next_tid, sessions, next_sid, used,
                 counter, lock, n_results, wrote, notPool>>

\* progress.add_task(...); pool.submit(_wrap_download, j) for every job
\* (lines 338, 366-367)
DlSubmit ==
  /\ o_pc = "download"
  /\ tasks' = tasks \cup {NewTask(o_ch, "dl", j) : j \in 1..n_jobs}
  /\ counter' = 0 /\ wrote' = 0 /\ n_results' = 0
  /\ o_pc' = "dl_wait"
  /\ UNCHANGED <<workers, o_ch, n_jobs, threads, next_tid, sessions, next_sid,
                 used, est, lock, notPool>>

\* f.write(chunk); written += len(chunk) (lines 354-355)
ChunkWrite ==
  \E t \in tasks :
    /\ t.st = "running" /\ t.kind = "dl" /\ t.step = "-" /\ t.left > 0
    /\ tasks' = SetTask(t, [t EXCEPT !.step = "lock"])
    /\ wrote' = wrote + ChunkLen
    /\ UNCHANGED <<workers, o_pc, o_ch, n_jobs, threads, next_tid, sessions,
                   next_sid, used, est, counter, lock, n_results,
                   notPool>>

\* progress.advance(task_id, len(chunk)): take the lock (line 356)
AdvanceLock ==
  \E t \in tasks :
    /\ t.st = "running" /\ t.step = "lock"
    /\ LockFree(lock)
    /\ lock' = t.by
    /\ tasks' = SetTask(t, [t EXCEPT !.step = "read"])
    /\ UNCHANGED <<workers, o_pc, o_ch, n_jobs, threads, next_tid, sessions,
                   next_sid, used, est, counter, n_results, wrote,
                   notPool>>

\* ... read the completed count
AdvanceRead ==
  \E t \in tasks :
    /\ t.st = "running" /\ t.step = "read"
    /\ tasks' = SetTask(t, [t EXCEPT !.step = "write", !.snap = counter])
    /\ UNCHANGED <<workers, o_pc, o_ch, n_jobs, threads, next_tid, sessions,
                   next_sid, used, est, counter, lock, n_results, wrote,
                   notPool>>

\* ... store the advanced count and release the lock
AdvanceWrite ==
  \E t \in tasks :
    /\ t.st = "running" /\ t.step = "write"
    /\ counter' = t.snap + ChunkLen
    /\ lock' = 0
    /\ tasks' = SetTask(t, [t EXCEPT !.step = "-", !.snap = 0, !.left = @ - 1])
    /\ UNCHANGED <<workers, o_pc, o_ch, n_jobs, threads, next_tid, sessions,
                   next_sid, used, est, n_results, wrote,
                   notPool>>

\* _wrap_download returns its tuple (line 364)
DlFinish ==
  \E t \in tasks :
    /\ t.st = "running" /\ t.kind = "dl" /\ t.step = "-" /\ t.left = 0
    /\ tasks' = SetTask(t, [t EXCEPT !.st = "done"])
    /\ UNCHANGED <<workers, o_pc, o_ch, n_jobs, threads, next_tid, sessions,
                   next_sid, used, est, counter, lock, n_results, wrote,
                   notPool>>

\* as_completed has yielded every future and the download pool is left
\* (lines 366-369)
DlJoin ==
  /\ o_pc = "dl_wait"
  /\ Joined(PoolTasks(o_ch, "dl"))
  /\ n_results' = Cardinality({t \in PoolTasks(o_ch, "dl") : t.st = "done"})
  /\ tasks' = {t \in tasks : ~(t.ch = o_ch /\ t.kind = "dl" /\ t.st = "done")}
  /\ threads' = {th \in threads : th.pool # <<o_ch, "dl">> \/ Busy(th)}
  /\ o_pc' = "assemble"
  /\ UNCHANGED <<workers, o_ch, n_jobs, next_tid, sessions, next_sid, used,
                 est, counter, lock, wrote, notPool>>

\* images_to_pdf(img_dir, pdf_path) has returned (line 446)
AssembleReturn ==
  /\ o_pc = "assemble"
  /\ NextChapter
  /\ UNCHANGED <<workers, tasks, threads, next_tid, sessions, next_sid, used,
                 lock, notPool>>

SpecPoolInit ==
  PoolInit /\ LayIdle /\ TaskIdle /\ WdIdle /\ SrvIdle
  /\ EnumIdle /\ RetryIdle /\ NameIdle /\ RunIdle
SpecPoolNext ==
  \/ PoolFetch \/ ProbeSubmit \/ TaskStart \/ ProbeFinish \/ ProbeJoin
  \/ DlSubmit \/ ChunkWrite \/ AdvanceLock \/ AdvanceRead \/ AdvanceWrite
  \/ DlFinish \/ DlJoin \/ AssembleReturn
SpecPool == SpecPoolInit /\ [][SpecPoolNext]_vars

\* ----------------------------------------------- one call of _wrap_download
WdJobs ==
  {BuildJobs(l)[k] :
     l \in {<<U_jpg, U_webp>>, <<U_PNG, U_bare>>, <<U_gif, U_jpg>>}, k \in 1..2}

WdInit ==
  /\ \E r \in 0..MaxRetries :
       wd_in \in [job : WdJobs, atts : [1..r -> AttemptAnswers], r : {r}]
  /\ wd_out = NoCall

\* _wrap_download(j) runs to its return (lines 340-364)
WrapDownloadCall ==
  /\ wd_out = NoCall /\ wd_in # NoCall
  /\ wd_out' = _wrap_download(wd_in.job, wd_in.atts, wd_in.r)
  /\ UNCHANGED <<wd_in, notWd>>

SpecAttemptsInit ==
  WdInit /\ LayIdle /\ TaskIdle /\ PoolIdle /\ SrvIdle
  /\ EnumIdle /\ RetryIdle /\ NameIdle /\ RunIdle
SpecAttemptsNext == WrapDownloadCall
SpecAttempts == SpecAttemptsInit /\ [][SpecAttemptsNext]_vars

\* ------------------------------- webapp/server.py, concurrent start requests
\* Each request r is handled on a thread of its own: _start_async(data), then
\* the _runner thread it starts.  The queue.Queue() object made by request r
\* is queue r; QueueWriter(q) of request r is named by r as well.

\* TASKS[task_id] = entry
PutTask(T, id, e) == [i \in DOMAIN T \cup {id} |-> IF i = id THEN e ELSE T[i]]

\* a line on a queue or a stream, with the task whose run produced it
Line(r, kind, n) == [by |-> r, kind |-> kind, n |-> n]

SrvInit ==
  /\ TASKS = <<>> /\ task_id = [r \in Reqs |-> 0]
  /\ s_pc = [r \in Reqs |-> "request"] /\ queues = [r \in Reqs |-> <<>>]
  /\ sys_stdout = RealStdout /\ saved = [r \in Reqs |-> RealStdout]
  /\ s_prints = [r \in Reqs |-> 0] /\ lost = {}

\* task_id = f"t{len(TASKS)+1}" (line 44)
StartAsyncId ==
  \E r \in Reqs :
    /\ s_pc[r] = "request"
    /\ task_id' = [task_id EXCEPT ![r] = Cardinality(DOMAIN TASKS) + 1]
    /\ s_pc' = [s_pc EXCEPT ![r] = "named"]
    /\ UNCHANGED <<TASKS, queues, sys_stdout, saved, s_prints, lost, notSrv>>

\* q = queue.Queue(); TASKS[task_id] = {...}; the thread is started
\* (lines 45-46, 115-116)
StartAsyncStore ==
  \E r \in Reqs :
    /\ s_pc[r] = "named"
    /\ TASKS' = PutTask(TASKS, task_id[r],
                        [queue |-> r, done |-> FALSE, result |-> PyNone])
    /\ s_pc' = [s_pc EXCEPT ![r] = "spawned"]
    /\ UNCHANGED <<task_id, queues, sys_stdout, saved, s_prints, lost, notSrv>>

\* q.put(f"Starting {mode} task\n") (line 60)
RunnerStarting ==
  \E r \in Reqs :
    /\ s_pc[r] = "spawned"
    /\ queues' = [queues EXCEPT ![r] = Append(@, Line(r, "starting", 0))]
    /\ s_pc' = [s_pc EXCEPT ![r] = "try"]
    /\ UNCHANGED <<TASKS, task_id, sys_stdout, saved, s_prints, lost, notSrv>>

\* with redirect_stdout(QueueWriter(q)), ...: sys.stdout is saved and replaced
\* (line 62)
RedirectEnter ==
  \E r \in Reqs :
    /\ s_pc[r] = "try"
    /\ saved' = [saved EXCEPT ![r] = sys_stdout]
    /\ sys_stdout' = r
    /\ s_pc' = [s_pc EXCEPT ![r] = "running"]
    /\ UNCHANGED <<TASKS, task_id, queues, s_prints, lost, notSrv>>

\* the run prints a line: console.print writes to what sys.stdout is now
\* (lines 64-72, 87-96; QueueWriter.write, lines 33-39)
RunPrint ==
  \E r \in Reqs :
    /\ s_pc[r] = "running" /\ s_prints[r] < MaxPrints
    /\ s_prints' = [s_prints EXCEPT ![r] = @ + 1]
    /\ LET line == Line(r, "print", s_prints[r] + 1)
       IN IF sys_stdout = RealStdout
          THEN lost' = lost \cup {line} /\ queues' = queues
          ELSE /\ queues' = [queues EXCEPT ![sys_stdout] = Append(@, line)]
               /\ lost' = lost
    /\ UNCHANGED <<TASKS, task_id, s_pc, sys_stdout, saved, notSrv>>

\* the run returns: TASKS[task_id]["result"] = {"ok": True, ...}
\* (lines 80-85, 100-106)
RunReturn ==
  \E r \in Reqs :
    /\ s_pc[r] = "running"
    /\ TASKS' = [TASKS EXCEPT ![task_id[r]].result = [py |-> "dict", ok |-> TRUE]]
    /\ s_pc' = [s_pc EXCEPT ![r] = "returned"]
    /\ UNCHANGED <<task_id, queues, sys_stdout, saved, s_prints, lost, notSrv>>

\* the run raises (lines 64, 87)
RunRaise ==
  \E r \in Reqs :
    /\ s_pc[r] = "running"
    /\ s_pc' = [s_pc EXCEPT ![r] = "raising"]
    /\ UNCHANGED <<TASKS, task_id, queues, sys_stdout, saved, s_prints, lost,
                   notSrv>>

\* the with block is left: sys.stdout is set back to the saved stream (line 62)
RedirectExit ==
  \E r \in Reqs :
    /\ s_pc[r] \in {"returned", "raising"}
    /\ sys_stdout' = saved[r]
    /\ s_pc' = [s_pc EXCEPT ![r] = IF s_pc[r] = "returned" THEN "finally"
                                                           ELSE "except"]
    /\ UNCHANGED <<TASKS, task_id, queues, saved, s_prints, lost, notSrv>>

\* except Exception as e: TASKS[task_id]["result"] = {"ok": False, ...}
\* (lines 109-110)
RunnerExcept ==
  \E r \in Reqs :
    /\ s_pc[r] = "except"
    /\ TASKS' = [TASKS EXCEPT ![task_id[r]].result = [py |-> "dict", ok |-> FALSE]]
    /\ s_pc' = [s_pc EXCEPT ![r] = "finally"]
    /\ UNCHANGED <<task_id, queues, sys_stdout, saved, s_prints, lost, notSrv>>

\* finally: TASKS[task_id]["done"] = True (line 112)
RunnerSetDone ==
  \E r \in Reqs :
    /\ s_pc[r] = "finally"
    /\ TASKS' = [TASKS EXCEPT ![task_id[r]].done = TRUE]
    /\ s_pc' = [s_pc EXCEPT ![r] = "done_set"]
    /\ UNCHANGED <<task_id, queues, sys_stdout, saved, s_prints, lost, notSrv>>

\* q.put("Task finished\n") (line 113)
RunnerPutFinished ==
  \E r \in Reqs :
    /\ s_pc[r] = "done_set"
    /\ queues' = [queues EXCEPT ![r] = Append(@, Line(r, "finished", 0))]
    /\ s_pc' = [s_pc EXCEPT ![r] = "over"]
    /\ UNCHANGED <<TASKS, task_id, sys_stdout, saved, s_prints, lost, notSrv>>

SpecServerInit ==
  SrvInit /\ LayIdle /\ TaskIdle /\ PoolIdle /\ WdIdle
  /\ EnumIdle /\ RetryIdle /\ NameIdle /\ RunIdle
SpecServerNext ==
  \/ StartAsyncId \/ StartAsyncStore \/ RunnerStarting \/ RedirectEnter
  \/ RunPrint \/ RunReturn \/ RunRaise \/ RedirectExit \/ RunnerExcept
  \/ RunnerSetDone \/ RunnerPutFinished
SpecServer == SpecServerInit /\ [][SpecServerNext]_vars

\* ================================================================== claims
RECURSIVE DecValue(_)
DecValue(s) ==
  IF Len(s) = 0 THEN 0
  ELSE 10 * DecValue(SubSeq(s, 1, Len(s) - 1)) + (Ord[s[Len(s)]] - Ord["0"])

IsDecimal(s) ==
  /\ Len(s) >= 1
  /\ \A i \in 1..Len(s) : Ord[s[i]] >= Ord["0"] /\ Ord[s[i]] <= Ord["9"]
  /\ (Len(s) > 1 => s[1] # "0")

\* b with every trailing slash removed, said without rstrip
IsStripped(b, t) ==
  \E k \in 0..Len(b) :
    /\ t = SubSeq(b, 1, k)
    /\ (k = 0 \/ b[k] # "/")
    /\ \A j \in (k + 1)..Len(b) : b[j] = "/"

ChapterWord == <<"/", "c", "h", "a", "p", "t", "e", "r", "-">>

\* C6: for every base address and every total N >= 1 the enumeration has
\* exactly N entries in increasing order, the i-th labelled with the decimal
\* numeral of i and addressed "{base without trailing slashes}/chapter-{i}".
C6_Enumeration ==
  (enum_pc = "labelled" /\ total_chapters >= 1) =>
    /\ Len(chapter_urls) = total_chapters
    /\ Len(labelled) = total_chapters
    /\ \A i \in 1..total_chapters :
         /\ IsDecimal(labelled[i].label)
         /\ DecValue(labelled[i].label) = i
         /\ labelled[i].address = chapter_urls[i]
         /\ \E t \in {SubSeq(base_url, 1, k) : k \in 0..Len(base_url)} :
              /\ IsStripped(base_url, t)
              /\ chapter_urls[i] = t \o ChapterWord \o labelled[i].label

C6_Witness ==
  /\ enum_pc = "labelled"
  /\ total_chapters = MaxTotal
  /\ base_url = <<"h", ":", "/", "/", "s", "/", "m", "/", "/">>
  /\ labelled[MaxTotal].address =
       <<"h", ":", "/", "/", "s", "/", "m">> \o ChapterWord \o Str(MaxTotal)

\* The addresses the job builder has consumed so far, in order.
Consumed == [p \in 1..(pos - 1) |-> UrlAt(in_urls, p)]

IsAbsoluteHttp(u) == u.scheme = "http" \/ u.scheme = "https"

HasIgnoredSuffix(u) ==
  /\ Len(u.path) >= 4
  /\ Lower(SubSeq(u.path, Len(u.path) - 3, Len(u.path))) \in {SVG, ICO}

Survives(u) == IsAbsoluteHttp(u) /\ ~HasIgnoredSuffix(u)

Survivors == SelectSeq(Consumed, Survives)

ContiguousInOrder ==
  /\ [i \in 1..Len(jobs) |-> jobs[i].url] = Survivors
  /\ [i \in 1..Len(jobs) |-> jobs[i].idx] = [i \in 1..Len(jobs) |-> i]

\* sorted(names) = names, names being distinct
SortsAsListed ==
  \A i \in 1..(Len(jobs) - 1) : LexLess(jobs[i].dest, jobs[i + 1].dest)

\* three digits (more from 1000 on) and one of the four extensions
NameShape ==
  \A i \in 1..Len(jobs) :
    LET d == jobs[i].dest
        n == IF i < 1000 THEN 3 ELSE 4
    IN /\ DecValue(SubSeq(d, 1, n)) = i
       /\ SubSeq(d, n + 1, Len(d)) \in {JPG, JPEG, PNG, WEBP}

\* C7 as stated: for all image address lists the surviving addresses get the
\* indices 1..k in their original order and the destination file names, sorted
\* as the assembler sorts them, reproduce that order.
C7_Original == ContiguousInOrder /\ NameShape /\ SortsAsListed

\* C7 amended: the same, for address lists with at most 999 surviving
\* addresses (the width of the zero-padded index).
C7_Amended ==
  /\ ContiguousInOrder
  /\ NameShape
  /\ (Len(jobs) <= 999 => SortsAsListed)

C7_Witness ==
  /\ Len(jobs) = 999
  /\ in_urls.head = <<U_svg>>
  /\ jobs[10].dest = <<"0", "1", "0">> \o WEBP
  /\ jobs[999].dest = <<"9", "9", "9">> \o WEBP

\* C8: the job list never holds an address that is not absolute http/https
\* or whose path ends in .svg or .ico; a dropped address consumes no index.
C8_JobListFiltered ==
  /\ \A i \in 1..Len(jobs) :
       /\ IsAbsoluteHttp(jobs[i].url)
       /\ ~HasIgnoredSuffix(jobs[i].url)
  /\ idx = Len(jobs)
  /\ ContiguousInOrder

C8_Witness ==
  /\ in_urls.head = <<U_ICO, U_PNG>>
  /\ pos = 3
  /\ Len(jobs) = 1
  /\ jobs[1].idx = 1
  /\ jobs[1].url = U_PNG

NetCallsOf(c) == {e \in netlog : e[2] = c}

\* the chapter the orchestrator is about to decide on
AtChapter(c) ==
  \/ mode = "bulk" /\ pc = "loop" /\ ch_idx = c /\ c <= total.v
  \/ mode = "single" /\ pc = "start" /\ c = 1

\* C1: a chapter run with force=false whose output document already exists
\* does no network I/O (no page fetch, probe or image download) and no
\* assembly, and ends as skipped.
C1_IdempotentSkip ==
  /\ [](\A c \in Chapters :
          (~force /\ docs[c] = "previous" /\ outcome[c] # "PENDING") =>
             (outcome[c] = "SKIPPED" /\ NetCallsOf(c) = {}))
  /\ [][\A c \in Chapters :
          (AtChapter(c) /\ Exists(c) /\ ~force) =>
             /\ outcome'[c] = "SKIPPED"
             /\ netlog' = netlog
             /\ docs' = docs /\ files' = files /\ out_files' = out_files
             /\ pc' \in {"loop", "done"}]_vars

C1_Witness ==
  /\ mode = "bulk" /\ pc = "done" /\ ~force
  /\ outcome[1] = "DONE" /\ outcome[2] = "SKIPPED"
  /\ NetCallsOf(2) = {} /\ NetCallsOf(1) # {}

JobIds == {jobs[k].idx : k \in 1..Len(jobs)}

\* C2: a job whose every attempt fails is recorded as failed with a non-empty
\* error string and aborts no sibling: every job ends with exactly one
\* recorded outcome and as many outcomes are recorded as there are jobs.
C2_EveryJobRecorded ==
  /\ Recorded \subseteq JobIds
  /\ \A a, b \in 1..Len(results) : results[a].idx = results[b].idx => a = b
  /\ (pc \in {"download", "assemble", "assembled"}) => raised = None
  /\ dl_ret # Unset => (Len(results) = Len(jobs) /\ Recorded = JobIds)
  /\ \A k \in 1..Len(results) :
       /\ tried[k].idx = results[k].idx
       /\ tried[k].exhausted =>
            (~results[k].ok /\ Len(results[k].err) > 0 /\ results[k].err # None)
       /\ ~tried[k].exhausted => results[k].ok
       /\ results[k].ok => results[k].err = None

C2_Witness ==
  /\ max_retries = MaxRetries
  /\ dl_ret = PyNone
  /\ Len(results) = 2
  /\ ~results[1].ok /\ tried[1].exhausted /\ results[1].idx = 2
  /\ results[2].ok /\ results[2].idx = 1

ResultOf(i) == results[CHOOSE k \in 1..Len(results) : results[k].idx = i]

\* C3 as stated: the assembly after a pass with failed jobs is given only
\* files of jobs that succeeded, never a file written by a failed job.
C3_Original ==
  pc \in {"assembled", "raised"} =>
    \A k \in 1..Len(out_files) :
      out_files[k].by # 0 => ResultOf(out_files[k].by).ok

Terminal == {"SKIPPED", "NO_IMAGES", "DONE", "NO_DOCUMENT"}

\* C4 as stated: in bulk mode no failure local to one chapter aborts the run:
\* run_bulk raises nothing and every chapter reaches a terminal outcome.
C4_Original ==
  (mode = "bulk" /\ found = "count") =>
    /\ pc # "raised"
    /\ pc = "done" =>
         \A c \in Chapters : c <= total.v => outcome[c] \in Terminal

Untouched ==
  /\ \A c \in Chapters : outcome[c] = "PENDING" /\ docs[c] \in {"absent", "previous"}
  /\ netlog \subseteq {<<"series", 0>>}
  /\ files = {} /\ out_files = <<>> /\ images = <<>>

\* C5: when total-chapter discovery fails (fetch fails after retries, field
\* absent, value unparsable) get_total_chapters returns None without raising
\* and run_bulk stops before any chapter: no page fetch, probe, download or
\* document.
C5_DiscoveryFailureStops ==
  (mode = "bulk" /\ found \in {"fetch_failed", "absent", "unparsable"}) =>
    /\ total = PyNone
    /\ raised = None
    /\ pc = "done"
    /\ Untouched

C5_Witness ==
  /\ mode = "bulk" /\ found = "unparsable" /\ pc = "done"
  /\ netlog = {<<"series", 0>>}
  /\ docs[1] = "absent"

\* C10 as stated: download_images_threaded returns to its caller the list of
\* all job outcomes, one per surviving address.
C10_Original ==
  (dl_ret # Unset /\ Len(jobs) > 0) =>
    (dl_ret.py = "list" /\ dl_ret.v = results)

FailedBefore(k) == \A i \in 1..(k - 1) : answers[i] # OK

\* C9 as stated: get_with_retries makes at most R attempts, returns at the
\* first success, sleeps 0.6*k s after failed attempt k, and when all R
\* attempts fail raises the network error of the last attempt, for every R.
C9_Original ==
  gwr.kind \in {"return", "raise"} =>
    /\ gwr.attempts <= retries
    /\ \A k \in 1..retries :
         (answers[k] = OK /\ FailedBefore(k)) =>
            (gwr.kind = "return" /\ gwr.attempts = k /\ Len(gwr.slept) = k - 1)
    /\ \A k \in 1..Len(gwr.slept) : 10 * gwr.slept[k] = 60 * k
    /\ FailedBefore(retries + 1) =>
         /\ gwr.kind = "raise"
         /\ gwr.exc \in Errors
         /\ (retries >= 1 => gwr.exc = answers[retries])

\* the forms under which a directory file can be handed to img2pdf.convert
Forms(p) == {p, [p EXCEPT !.name = ConvertDir \o SplitExt(p.name).root \o JPG]}

OriginIn(src, o) == {i \in 1..Len(src) : o \in Forms(src[i])}

NeedsNoConversion(p) == EndsWithAny(Lower(p.name), {JPG, JPEG, PNG})

\* C11: images_to_pdf returns False, raises nothing and leaves the output
\* document alone when the directory holds no supported image or every file
\* is dropped in normalization; a file that fails normalization is the only
\* one dropped, and the files that remain keep their relative order.
C11_AssemblyFailsSoftly ==
  pc \in {"assembled", "raised"} =>
    LET src == SrcFiles(files)
    IN /\ (src = <<>> \/ out_files = <<>>) =>
            /\ pc = "assembled" /\ raised = None
            /\ outcome[ch_idx] = "NO_DOCUMENT"
            /\ docs[ch_idx] \in {"absent", "previous"}
       /\ \A k \in 1..Len(out_files) : Cardinality(OriginIn(src, out_files[k])) = 1
       /\ \A a, b \in 1..Len(out_files) :
            a < b => \A i \in OriginIn(src, out_files[a]),
                        j \in OriginIn(src, out_files[b]) : i < j
       /\ \A i \in 1..Len(src) :
            NeedsNoConversion(src[i]) =>
              \E k \in 1..Len(out_files) : out_files[k] = src[i]

C11_Witness ==
  /\ pc = "assembled"
  /\ files = {DirFile(1, WEBP), DirFile(2, JPG), DirFile(3, WEBP), DirFile(5, SVG)}
  /\ Len(out_files) = 2
  /\ out_files[1] = DirFile(2, JPG)
  /\ out_files[2].name = ConvertDir \o ZeroPad(Str(3), PadWidth) \o JPG
  /\ docs[1] = "written"

\* a DPI component as the layout rule is to read it: 96 when unspecified or
\* not positive
EffectiveDpi(ndpi, k) ==
  IF ndpi = PyNone THEN 96
  ELSE IF ndpi.v[k] = PyNone THEN 96
  ELSE IF ndpi.v[k].v <= 0 THEN 96
  ELSE ndpi.v[k].v

\* C12: for positive pixel sizes w, h and DPI (dx, dy), each defaulting to 96
\* when unspecified or non-positive, the page is exactly 720pt wide, its
\* height satisfies height * w * dy = 720 * h * dx, and the image size equals
\* the page size.
C12_FixedWidthLayout ==
  (lay_out # NoCall /\ lay_in.w > 0 /\ lay_in.h > 0) =>
    LET dx == EffectiveDpi(lay_in.ndpi, 1)
        dy == EffectiveDpi(lay_in.ndpi, 2)
    IN /\ lay_out[1] = [n |-> 720, d |-> 1]
       /\ lay_out[2].n * lay_in.w * dy = 720 * lay_in.h * dx * lay_out[2].d
       /\ lay_out[3] = lay_out[1]
       /\ lay_out[4] = lay_out[2]

C12_Witness ==
  /\ lay_in = [w |-> 3, h |-> 4, ndpi |-> PyPair(PyInt(300), PyInt(-72))]
  /\ lay_out # NoCall
  /\ lay_out[2] = [n |-> 3000, d |-> 1]

DataLines == SelectSeq(events, LAMBDA e : e.event = "data")
EndEvents == SelectSeq(events, LAMBDA e : e.event = "end")

\* C13 as stated: the stream consumer receives every line the task emitted,
\* in emission order, then exactly one terminal event with the task's result;
\* no line, the final "Task finished" included, is lost or comes after it.
C13_Original ==
  /\ \A k \in 1..Len(events) : events[k].event = "end" => k = Len(events)
  /\ \A k \in 1..Len(DataLines) :
       k <= Len(emitted) /\ DataLines[k].line = emitted[k]
  /\ (gen_pc = "closed" /\ runner_pc = "end") =>
       /\ Len(DataLines) = Len(emitted)
       /\ EndEvents = <<End(t_result)>>

StatedEdges ==
  {<<"PENDING", "SKIPPED">>, <<"PENDING", "FETCHING">>,
   <<"FETCHING", "NO_IMAGES">>, <<"FETCHING", "DOWNLOADING">>,
   <<"DOWNLOADING", "ASSEMBLING">>, <<"ASSEMBLING", "DONE">>}

\* a chapter's steps stay on the edges E, and each edge is taken on its
\* stated condition
FollowsEdges(E) ==
  \A c \in Chapters :
    outcome'[c] # outcome[c] =>
      /\ <<outcome[c], outcome'[c]>> \in E
      /\ outcome[c] = "PENDING" =>
           (outcome'[c] = "SKIPPED" <=> (Exists(c) /\ ~force))
      /\ outcome[c] = "FETCHING" =>
           /\ outcome'[c] = "NO_IMAGES" <=> images' = <<>>
           /\ outcome'[c] = "DOWNLOADING" <=> images' # <<>>
           /\ <<"page", c>> \in netlog'

\* C14 as stated: a chapter moves only along PENDING -> SKIPPED | FETCHING,
\* FETCHING -> NO_IMAGES | DOWNLOADING, DOWNLOADING -> ASSEMBLING,
\* ASSEMBLING -> DONE, each under its stated condition.
C14_Original == [][FollowsEdges(StatedEdges)]_vars

\* C14 amended: the same, with the edge ASSEMBLING -> NO_DOCUMENT for an
\* assembly that returns failure, DONE being entered only when the document
\* was written.
C14_Amended ==
  [][/\ FollowsEdges(StatedEdges \cup {<<"ASSEMBLING", "NO_DOCUMENT">>})
     /\ \A c \in Chapters :
          (outcome[c] = "ASSEMBLING" /\ outcome'[c] # outcome[c]) =>
            (outcome'[c] = "DONE" <=> docs'[c] = "written")]_vars

C14_Witness ==
  /\ mode = "bulk" /\ pc = "done"
  /\ outcome[1] = "NO_DOCUMENT" /\ outcome[2] = "DONE"
  /\ docs[1] = "absent" /\ docs[2] = "written"

InFlight == {t \in tasks : t.st # "done"}

\* C15: chapters are processed one after the other and assembly never
\* overlaps downloading: assembly of chapter i starts only when every download
\* job of chapter i has an outcome, nothing of chapter i+1 starts before the
\* assembly of chapter i has returned, and jobs of two chapters are never in
\* flight together.
C15_Sequential ==
  /\ [](\A t \in InFlight :
          /\ t.ch = o_ch
          /\ (t.kind = "probe" /\ o_pc = "probe_wait")
               \/ (t.kind = "dl" /\ o_pc = "dl_wait"))
  /\ [](o_pc = "assemble" => (n_results = n_jobs /\ tasks = {}))
  /\ [](o_pc \in {"fetch", "end"} => tasks = {})
  /\ [][o_ch' # o_ch =>
          /\ o_ch' = o_ch + 1 /\ o_pc' = "fetch"
          /\ o_pc \in {"assemble", "fetch"}
          /\ InFlight = {}]_vars

C15_Witness ==
  /\ o_ch = 2 /\ o_pc = "dl_wait" /\ n_jobs = 2
  /\ \A t \in tasks : t.ch = 2 /\ t.kind = "dl" /\ t.st = "running"
  /\ Cardinality(tasks) = 2
  /\ next_tid > 3

\* C16 as stated: a job makes at most maxRetries attempts, stops at its first
\* successful attempt, and waits 0.6*k seconds after its k-th failed attempt,
\* whether that attempt failed on the request or while streaming the body.
C16_Original ==
  wd_out # NoCall =>
    /\ wd_out.attempts <= wd_in.r
    /\ \A k \in 1..wd_in.r :
         (wd_in.atts[k] = A_ok /\ \A i \in 1..(k - 1) : wd_in.atts[i] # A_ok) =>
           (wd_out.res.ok /\ wd_out.attempts = k /\ wd_out.failures = k - 1)
    /\ \A k \in 1..Len(wd_out.slept) : 10 * SumSeq(wd_out.slept[k]) = 60 * k

Running(kind) == {t \in tasks : t.st = "running" /\ t.kind = kind}

\* C17: at most `workers` probes are in flight in the probe phase and at most
\* `workers` download jobs in the download phase, the download phase starts
\* only after every probe has returned, and a failed probe adds 0 to the size
\* estimate without failing the run.
C17_BoundedParallelism ==
  /\ [](Cardinality(Running("probe")) <= workers)
  /\ [](Cardinality(Running("dl")) <= workers)
  /\ []((\E t \in tasks : t.kind = "dl") =>
          (\A t \in tasks : t.kind = "probe" => t.st = "done"))
  /\ [][(o_pc = "probe_wait" /\ o_pc' # o_pc) =>
          /\ o_pc' = "download"
          /\ \A t \in PoolTasks(o_ch, "probe") : t.st = "done"
          /\ est' = SumSeq(BodyChunks)
                    * Cardinality({t \in PoolTasks(o_ch, "probe") : t.ans = "length"})]_vars

C17_Witness ==
  /\ workers = 1 /\ n_jobs = 2 /\ o_pc = "download"
  /\ est = SumSeq(BodyChunks)
  /\ next_tid = 2

AllJobsFinished ==
  \/ o_pc = "assemble"
  \/ /\ o_pc = "dl_wait"
     /\ \A t \in PoolTasks(o_ch, "dl") : t.st = "done"

\* C18: the shared progress counter suffers no lost update: under every
\* interleaving of the download workers, once all jobs have finished the
\* counter equals the sum of the sizes of all chunks written during the pass.
C18_NoLostUpdate == AllJobsFinished => counter = wrote

C18_Witness ==
  /\ o_pc = "assemble" /\ workers = 2 /\ n_jobs = 2
  /\ wrote >= 2 * ChunkLen /\ counter = wrote

\* C19: no session is ever used by two threads: every worker thread uses one
\* session of its own, and the orchestrator's session is used only by the
\* thread that runs the orchestrator.
C19_SessionsNotShared ==
  /\ \A p, q \in used : p[1] = q[1] => p[2] = q[2]
  /\ \A p, q \in used : p[2] = q[2] => p[1] = q[1]
  /\ \A p \in used : p[1] = MainSession <=> p[2] = MainThread

C19_Witness ==
  /\ <<MainSession, MainThread>> \in used
  /\ \E p, q \in used : /\ p[2] # q[2]
                        /\ p[2] # MainThread /\ q[2] # MainThread
  /\ \E t, u \in tasks : t # u /\ t.st = "done" /\ u.st = "done" /\ t.by = u.by

\* C20: the skip check never trusts a document that was not fully assembled:
\* whenever the file chapter-{label}.pdf exists, an assembly of that chapter
\* completed successfully (in this run or in the one that left the file), so
\* a build that fails after the file was opened leaves nothing that makes a
\* later run without force skip the chapter.
C20_Original ==
  \A c \in Chapters : Exists(c) => docs[c] \in {"previous", "written"}

\* C21: a forced re-run of a chapter whose image directory an earlier pass
\* populated assembles a document whose pages are images downloaded in the
\* current pass only: a file left in the directory by an earlier pass
\* contributes no page.
C21_Original ==
  (force /\ pc = "assembled" /\ outcome[ch_idx] = "DONE") =>
    \A k \in 1..Len(out_files) : out_files[k].by # 0

\* C22: for every job recorded as succeeded, the recorded bytes transferred
\* equal the number of bytes in its destination file, also when earlier
\* attempts of the job failed after writing part of the body.
C22_Original ==
  (wd_out # NoCall /\ wd_out.res.ok) => wd_out.res.written = wd_out.file.bytes

Named == {r \in Reqs : s_pc[r] \notin {"idle", "request"}}
Stored == {r \in Reqs : s_pc[r] \notin {"idle", "request", "named"}}

\* C23: task identifiers are unique: under every interleaving of concurrent
\* start requests no two calls of _start_async obtain the same task id, and
\* no task's entry in TASKS is overwritten by another task.
C23_Original ==
  /\ \A r1, r2 \in Named : r1 # r2 => task_id[r1] # task_id[r2]
  /\ \A r \in Stored : TASKS[task_id[r]].queue = r

\* C24: log isolation between tasks: when two tasks run concurrently, every
\* line written by a task's run is put on that task's queue only, never on
\* another task's queue, and none goes past the queues to the process's own
\* stdout.
C24_Original ==
  /\ \A r \in Reqs : \A k \in 1..Len(queues[r]) : queues[r][k].by = r
  /\ lost = {}
====
